---- MODULE Spec2Model ----
(***************************************************************************)
(* Model of transcript_formatter.py: format_transcript (the dual-schema    *)
(* transcript renderer) and main (the command-line entry point).           *)
(*                                                                         *)
(* JSON values are tagged records: [t |-> "obj", v |-> <function from      *)
(* keys to values>], [t |-> "list", v |-> <sequence>], [t |-> "str", ...], *)
(* [t |-> "int", ...], [t |-> "float", v |-> <tenths>], [t |-> "null"].    *)
(* A Python exception escaping an expression is the value RAISE; every     *)
(* helper propagates it, as an exception propagates up the call stack.     *)
(* Floats are fixed-point numbers counted in tenths (405 is 40.5); the     *)
(* input sets only use multiples of 0.5, which binary floats hold exactly. *)
(***************************************************************************)
EXTENDS Integers, Sequences, FiniteSets, TLC

VARIABLES
    transcript_data,  \* the argument of format_transcript (parsed JSON)
    branch,           \* which arm of `if is_aws_format` the last call ran
    lines,            \* format_transcript's local list `lines`
    ret,              \* outcome of the last call: returned string or raise
    history,          \* the calls made so far: <<[arg, out], ...>>
    deletes,          \* number of fields deleted from the input record
    argv,             \* sys.argv
    cwd,              \* the process's current working directory
    fs,               \* the file system: absolute path -> file
    fs_writes,        \* paths opened with mode "w", in order
    stdout,           \* what print() has written
    status,           \* exit status of the process (-1 while running)
    pc                \* position of main

vars == <<transcript_data, branch, lines, ret, history, deletes,
          argv, cwd, fs, fs_writes, stdout, status, pc>>

fmtVars == <<transcript_data, branch, lines, ret, history, deletes>>
mainVars == <<argv, cwd, fs, fs_writes, stdout, status, pc>>

-----------------------------------------------------------------------------
(* Bounds of the model *)

MaxDeletes == 3
MaxTurns == 3
MaxScores == 3
MaxMinutes == 3
MaxCalls == 3

-----------------------------------------------------------------------------
(* JSON values and the Python operations the formatter applies to them *)

JObj(f) == [t |-> "obj", v |-> f]
JList(s) == [t |-> "list", v |-> s]
JStr(s) == [t |-> "str", v |-> s]
JInt(n) == [t |-> "int", v |-> n]
JFloat(tenths) == [t |-> "float", v |-> tenths]
JNull == [t |-> "null"]
RAISE == [t |-> "raise"]

EmptyDict == JObj(<<>>)
EmptyList == JList(<<>>)

Without(f, k) == [j \in DOMAIN f \ {k} |-> f[j]]

\* dict.get(key, default); AttributeError when the receiver is no dict
PyGet(x, key, default) ==
    CASE x.t = "raise" -> RAISE
      [] x.t = "obj" -> IF key \in DOMAIN x.v THEN x.v[key] ELSE default
      [] OTHER -> RAISE

\* `key in x`
PyIn(key, x) ==
    CASE x.t = "obj" -> key \in DOMAIN x.v
      [] x.t = "list" -> FALSE
      [] x.t = "str" -> FALSE

Digit(d) ==
    CASE d = 0 -> "0" [] d = 1 -> "1" [] d = 2 -> "2" [] d = 3 -> "3"
      [] d = 4 -> "4" [] d = 5 -> "5" [] d = 6 -> "6" [] d = 7 -> "7"
      [] d = 8 -> "8" [] d = 9 -> "9"

RECURSIVE NatToStr(_)
NatToStr(n) == IF n < 10 THEN Digit(n) ELSE NatToStr(n \div 10) \o Digit(n % 10)

\* str(int)
IntToStr(n) == IF n < 0 THEN "-" \o NatToStr(0 - n) ELSE NatToStr(n)

\* repr of a float holding a whole number of tenths (non-negative)
FloatToStr(tenths) == NatToStr(tenths \div 10) \o "." \o Digit(tenths % 10)

\* the seconds formatted without a width
Format02d_unpadded(n) == IntToStr(n)

\* format spec 02d: at least two characters, zero-padded on the left
Format02d(n) ==
    LET s == IntToStr(n) IN IF Len(s) < 2 THEN "0" \o s ELSE s

\* what an f-string replacement field {x} renders (scalars only)
PyStr(x) ==
    CASE x.t = "str" -> x.v
      [] x.t = "int" -> IntToStr(x.v)
      [] x.t = "float" -> FloatToStr(x.v)
      [] x.t = "null" -> "None"

\* x // n and x % n on an int; TypeError on str, None, dict, list
FloorDiv(x, n) ==
    CASE x.t = "int" -> JInt(x.v \div n)
      [] x.t \in {"raise", "str", "null", "obj", "list"} -> RAISE

Mod(x, n) ==
    CASE x.t = "int" -> JInt(x.v % n)
      [] x.t \in {"raise", "str", "null", "obj", "list"} -> RAISE

IsRaise(x) == x.t = "raise"

RECURSIVE Join(_)
\* "\n".join(lines)
Join(ls) ==
    IF Len(ls) = 0 THEN ""
    ELSE IF Len(ls) = 1 THEN ls[1]
    ELSE ls[1] \o "\n" \o Join(Tail(ls))

\* the characters U+2014, U+274C and U+2713 of the source, spelled in ASCII
EmDash == "--"
CrossMark == "[x]"
CheckMark == "[v]"

-----------------------------------------------------------------------------
(* format_transcript *)

\* the key test alone, without the isinstance test
is_aws_format_key_only(d) == PyIn("Transcript", d)

\* line 23: "Transcript" in transcript_data and isinstance(..., list)
is_aws_format(d) ==
    PyIn("Transcript", d) /\ PyGet(d, "Transcript", JNull).t = "list"

\* f"{mins} min, {secs} secs"
MinSecs(mins, secs) ==
    IF IsRaise(mins) \/ IsRaise(secs) THEN RAISE
    ELSE JStr(PyStr(mins) \o " min, " \o PyStr(secs) \o " secs")

\* the seconds left whole: line 31's remainder forgotten
aws_duration_no_remainder(duration_ms) ==
    LET duration_secs == FloorDiv(duration_ms, 1000)
    IN  MinSecs(FloorDiv(duration_secs, 60), duration_secs)

\* lines 29-32: seconds first, then minutes and the remainder
aws_duration(duration_ms) ==
    LET duration_secs == FloorDiv(duration_ms, 1000)
    IN  MinSecs(FloorDiv(duration_secs, 60), Mod(duration_secs, 60))

\* lines 48-49: minutes straight from the milliseconds
aws_talk_time(talk_time_ms) ==
    MinSecs(FloorDiv(talk_time_ms, 60000),
            FloorDiv(Mod(talk_time_ms, 60000), 1000))

\* lines 27-55: the AWS arm
aws_facts(d) ==
    LET conv_char == PyGet(d, "ConversationCharacteristics", EmptyDict)
        talk_time == PyGet(PyGet(conv_char, "TalkTime", EmptyDict),
                           "DetailsByParticipant", EmptyDict)
        talk_speed == PyGet(PyGet(conv_char, "TalkSpeed", EmptyDict),
                            "DetailsByParticipant", EmptyDict)
        sentiment == PyGet(PyGet(conv_char, "Sentiment", EmptyDict),
                           "OverallSentiment", EmptyDict)
    IN  [ call_id |-> PyGet(d, "JobName", JStr("N/A")),
          duration |-> aws_duration(
              PyGet(conv_char, "TotalConversationDurationMillis", JInt(0))),
          agent_name |-> JStr("Agent"),
          client_name |-> JStr("Customer"),
          client_location |-> JStr("N/A"),
          raw_content |-> PyGet(d, "Transcript", EmptyList),
          agent_talk_time |-> aws_talk_time(
              PyGet(PyGet(talk_time, "AGENT", EmptyDict),
                    "TotalTimeMillis", JInt(0))),
          customer_talk_time |-> aws_talk_time(
              PyGet(PyGet(talk_time, "CUSTOMER", EmptyDict),
                    "TotalTimeMillis", JInt(0))),
          agent_wpm |-> PyGet(PyGet(talk_speed, "AGENT", EmptyDict),
                              "AverageWordsPerMinute", JStr("N/A")),
          customer_wpm |-> PyGet(PyGet(talk_speed, "CUSTOMER", EmptyDict),
                                 "AverageWordsPerMinute", JStr("N/A")),
          agent_sentiment |-> PyGet(sentiment, "AGENT", JStr("N/A")),
          customer_sentiment |-> PyGet(sentiment, "CUSTOMER", JStr("N/A")) ]

\* a missing name rendered as the sentinel
website_name_sentinel(person, literal) == PyGet(person, "name", JStr("N/A"))

\* lines 66-67: agent.get("name", "Agent"), client_info.get("name", "Customer")
website_name(person, literal) == PyGet(person, "name", JStr(literal))

\* lines 59-77: the Website arm
website_facts(d) ==
    LET call == PyGet(d, "call", EmptyDict)
        agent == PyGet(d, "agent", EmptyDict)
        client_info == PyGet(d, "client", EmptyDict)
        analysis == PyGet(d, "analysis", EmptyDict)
    IN  [ call_id |-> PyGet(call, "call_id", JStr("N/A")),
          duration |-> PyGet(call, "duration", JStr("N/A")),
          agent_name |-> website_name(agent, "Agent"),
          client_name |-> website_name(client_info, "Customer"),
          client_location |-> PyGet(client_info, "location", JStr("N/A")),
          raw_content |-> PyGet(PyGet(d, "transcript", EmptyDict),
                                "raw_content", EmptyList),
          agent_talk_time |-> PyGet(analysis, "agent_totaltalktime", JStr("N/A")),
          customer_talk_time |-> PyGet(analysis, "client_totaltalktime", JStr("N/A")),
          agent_wpm |-> PyGet(analysis, "agent_talkspeed", JStr("N/A")),
          customer_wpm |-> PyGet(analysis, "client_talkspeed", JStr("N/A")),
          agent_sentiment |-> PyGet(analysis, "agent_sentiment_avg", JStr("N/A")),
          customer_sentiment |-> PyGet(analysis, "client_sentiment_avg", JStr("N/A")) ]

ScalarFields ==
    {"call_id", "duration", "agent_name", "client_name", "client_location",
     "agent_talk_time", "customer_talk_time", "agent_wpm", "customer_wpm",
     "agent_sentiment", "customer_sentiment"}

\* the Duration line left out when there is no duration to show
header_lines_omit_missing(f) ==
    << "=== CALL METADATA ===",
       "Call ID: " \o PyStr(f.call_id) >>
    \o (IF f.duration.t = "str" /\ f.duration.v = "N/A" THEN <<>>
        ELSE << "Duration: " \o PyStr(f.duration) >>)
    \o
    << "Agent: " \o PyStr(f.agent_name),
       "Client: " \o PyStr(f.client_name) \o " (" \o PyStr(f.client_location) \o ")",
       "",
       "=== CALL ANALYSIS SUMMARY ===",
       "Agent  " \o EmDash \o " sentiment: " \o PyStr(f.agent_sentiment)
           \o " | talk speed: " \o PyStr(f.agent_wpm)
           \o " wpm | total talk time: " \o PyStr(f.agent_talk_time),
       "Client " \o EmDash \o " sentiment: " \o PyStr(f.customer_sentiment)
           \o " | talk speed: " \o PyStr(f.customer_wpm)
           \o " wpm | total talk time: " \o PyStr(f.customer_talk_time),
       "",
       "=== TRANSCRIPT ===",
       "(Format: [timestamp] ROLE | avg_loudness dB | SENTIMENT)",
       "" >>

\* lines 79-101: the metadata block, the summary block, the section header
header_lines(f) ==
    << "=== CALL METADATA ===",
       "Call ID: " \o PyStr(f.call_id),
       "Duration: " \o PyStr(f.duration),
       "Agent: " \o PyStr(f.agent_name),
       "Client: " \o PyStr(f.client_name) \o " (" \o PyStr(f.client_location) \o ")",
       "",
       "=== CALL ANALYSIS SUMMARY ===",
       "Agent  " \o EmDash \o " sentiment: " \o PyStr(f.agent_sentiment)
           \o " | talk speed: " \o PyStr(f.agent_wpm)
           \o " wpm | total talk time: " \o PyStr(f.agent_talk_time),
       "Client " \o EmDash \o " sentiment: " \o PyStr(f.customer_sentiment)
           \o " | talk speed: " \o PyStr(f.customer_wpm)
           \o " wpm | total talk time: " \o PyStr(f.customer_talk_time),
       "",
       "=== TRANSCRIPT ===",
       "(Format: [timestamp] ROLE | avg_loudness dB | SENTIMENT)",
       "" >>

-----------------------------------------------------------------------------
(* The turn loop, lines 103-123 *)

RECURSIVE SumTenths(_)
\* sum(valid_scores), in tenths
SumTenths(scores) ==
    IF scores = <<>> THEN 0
    ELSE (IF Head(scores).t = "int" THEN 10 * Head(scores).v ELSE Head(scores).v)
         + SumTenths(Tail(scores))

\* round(total / count, 1): the nearest tenth, an exact tie going to the even one
RoundTenths(total, count) ==
    LET q == total \div count
        r == total % count
    IN  IF 2 * r < count THEN q
        ELSE IF 2 * r > count THEN q + 1
        ELSE IF q % 2 = 0 THEN q ELSE q + 1

IsNumber(s) == s.t \in {"int", "float"}

\* line 110: [s for s in loudness_scores if s is not None]
valid_scores(loudness_scores) ==
    SelectSeq(loudness_scores, LAMBDA s : s.t # "null")

\* the mean taken over all entries, the nulls counted
avg_loudness_count_all(loudness_scores) ==
    CASE loudness_scores.t = "list" ->
            LET valid == valid_scores(loudness_scores.v)
            IN  IF valid = <<>> THEN JStr("N/A")
                ELSE JFloat(RoundTenths(SumTenths(valid), Len(loudness_scores.v)))
      [] loudness_scores.t \in {"raise", "null", "int", "float"} -> RAISE

\* lines 110-114; TypeError when loudness_scores is no list or holds a non-number
avg_loudness(loudness_scores) ==
    CASE loudness_scores.t = "list" ->
            LET valid == valid_scores(loudness_scores.v)
            IN  IF valid = <<>> THEN JStr("N/A")
                ELSE IF \E i \in DOMAIN valid : ~IsNumber(valid[i]) THEN RAISE
                ELSE JFloat(RoundTenths(SumTenths(valid), Len(valid)))
      [] loudness_scores.t \in {"raise", "null", "int", "float"} -> RAISE

\* lines 116-119
timestamp(begin_ms) ==
    LET minutes == FloorDiv(begin_ms, 60000)
        seconds == FloorDiv(Mod(begin_ms, 60000), 1000)
    IN  IF IsRaise(minutes) \/ IsRaise(seconds) THEN RAISE
        ELSE JStr(PyStr(minutes) \o ":" \o Format02d(seconds.v))

\* turn["Content"]: KeyError when the key is absent
turn_content_subscript(turn) == PyGet(turn, "Content", RAISE)

\* line 105: turn.get("Content", "")
turn_content(turn) == PyGet(turn, "Content", JStr(""))

\* lines 104-123: one pass of the loop body; content must be a str for the
\* final join to accept it
render_turn(turn) ==
    LET role == PyGet(turn, "ParticipantRole", JStr("UNKNOWN"))
        content == turn_content(turn)
        sentiment == PyGet(turn, "Sentiment", JStr("UNKNOWN"))
        loudness == avg_loudness(PyGet(turn, "LoudnessScores", EmptyList))
        ts == timestamp(PyGet(turn, "BeginOffsetMillis", JInt(0)))
    IN  IF IsRaise(role) \/ IsRaise(content) \/ IsRaise(sentiment)
           \/ IsRaise(loudness) \/ IsRaise(ts) \/ content.t # "str"
        THEN [raised |-> TRUE, lines |-> <<>>]
        ELSE [raised |-> FALSE,
              lines |-> << "[" \o PyStr(ts) \o "] " \o PyStr(role) \o " | "
                               \o PyStr(loudness) \o " dB | " \o PyStr(sentiment),
                           content.v,
                           "" >>]

RECURSIVE render_turns(_)
RECURSIVE render_turns_reversed(_)
\* the turns rendered last to first
render_turns_reversed(turns) ==
    IF turns = <<>> THEN [raised |-> FALSE, lines |-> <<>>]
    ELSE LET first == render_turn(Head(turns))
             rest == render_turns_reversed(Tail(turns))
         IN  [raised |-> first.raised \/ rest.raised,
              lines |-> IF first.raised \/ rest.raised THEN <<>>
                        ELSE rest.lines \o first.lines]

\* line 103: for turn in raw_content, in list order
render_turns(turns) ==
    IF turns = <<>> THEN [raised |-> FALSE, lines |-> <<>>]
    ELSE LET first == render_turn(Head(turns))
             rest == render_turns(Tail(turns))
         IN  [raised |-> first.raised \/ rest.raised,
              lines |-> IF first.raised \/ rest.raised THEN <<>>
                        ELSE first.lines \o rest.lines]

\* what `for turn in raw_content` iterates: the elements of a list; nothing
\* for an empty dict or str; a non-empty dict or str yields str items, on
\* which turn.get raises; None and numbers are not iterable
iterate(raw_content) ==
    CASE raw_content.t = "list" -> render_turns(raw_content.v)
      [] raw_content.t = "obj" ->
            [raised |-> DOMAIN raw_content.v # {}, lines |-> <<>>]
      [] raw_content.t = "str" ->
            [raised |-> raw_content.v # "", lines |-> <<>>]
      [] OTHER -> [raised |-> TRUE, lines |-> <<>>]

\* `lines` kept from the call before (a module-level or default-argument list)
lines_kept(previous) == previous

\* line 20: lines = []
lines_at_entry(previous) == <<>>

\* lines 13-125: the whole function. `previous` is what the name `lines`
\* held when the call began.
format_transcript(previous, d) ==
    IF d.t \in {"int", "float", "null"}
    THEN [branch |-> "none", raised |-> TRUE, lines |-> <<>>, text |-> ""]
    ELSE
    LET aws == is_aws_format(d)
        f == IF aws THEN aws_facts(d) ELSE website_facts(d)
        body == iterate(f.raw_content)
        raised == (\E k \in ScalarFields : IsRaise(f[k])) \/ body.raised
        out == lines_at_entry(previous) \o header_lines(f) \o body.lines
    IN  [branch |-> IF aws THEN "aws" ELSE "website",
         raised |-> raised,
         lines |-> IF raised THEN <<>> ELSE out,
         text |-> IF raised THEN "" ELSE Join(out)]

-----------------------------------------------------------------------------
(* Input records *)

Turn(role, content, sentiment, scores, begin_ms) ==
    JObj([ParticipantRole |-> JStr(role), Content |-> JStr(content),
          Sentiment |-> JStr(sentiment), LoudnessScores |-> JList(scores),
          BeginOffsetMillis |-> JInt(begin_ms)])

TurnA == Turn("AGENT", "Hello, how can I help?", "POSITIVE",
              <<JFloat(400), JNull, JFloat(500)>>, 3000)
TurnB == Turn("CUSTOMER", "My order is late.", "NEGATIVE",
              <<JNull, JNull>>, 125000)
TurnC == Turn("AGENT", "Let me check.", "NEUTRAL", <<>>, 59999)

ByRole(agent, customer) ==
    JObj([DetailsByParticipant |-> JObj([AGENT |-> agent, CUSTOMER |-> customer])])

\* a well-formed AWS-shape record
AwsRecord(duration_ms, agent_ms, customer_ms, turns) ==
    JObj([JobName |-> JStr("job-42"),
          ConversationCharacteristics |-> JObj([
              TotalConversationDurationMillis |-> JInt(duration_ms),
              TalkTime |-> ByRole(JObj([TotalTimeMillis |-> JInt(agent_ms)]),
                                  JObj([TotalTimeMillis |-> JInt(customer_ms)])),
              TalkSpeed |-> ByRole(JObj([AverageWordsPerMinute |-> JInt(150)]),
                                   JObj([AverageWordsPerMinute |-> JInt(132)])),
              Sentiment |-> JObj([OverallSentiment |->
                  JObj([AGENT |-> JFloat(25), CUSTOMER |-> JFloat(5)])])]),
          Transcript |-> JList(turns)])

\* a well-formed Website-shape record
WebsiteRecord(turns) ==
    JObj([call |-> JObj([call_id |-> JStr("c-7"), duration |-> JStr("4:10")]),
          agent |-> JObj([name |-> JStr("Dana")]),
          client |-> JObj([name |-> JStr("Lee"), location |-> JStr("Austin, TX")]),
          analysis |-> JObj([agent_totaltalktime |-> JStr("2:01"),
                             client_totaltalktime |-> JStr("1:40"),
                             agent_talkspeed |-> JInt(141),
                             client_talkspeed |-> JInt(120),
                             agent_sentiment_avg |-> JFloat(30),
                             client_sentiment_avg |-> JFloat(15)]),
          transcript |-> JObj([raw_content |-> JList(turns)])])

\* a record carrying the marks of both schemas
BothRecord(transcript) ==
    JObj([JobName |-> JStr("job-42"),
          Transcript |-> transcript,
          call |-> JObj([call_id |-> JStr("c-7"), duration |-> JStr("4:10")]),
          transcript |-> JObj([raw_content |-> JList(<<TurnB>>)])])

\* the values a top-level "Transcript" key may hold
TranscriptValues ==
    {JList(<<>>), JList(<<TurnA>>), JNull, JStr("text"), EmptyDict,
     JObj([raw_content |-> JList(<<TurnA>>)])}

\* every record obtained from x by deleting one field, at any nesting level
RECURSIVE DeleteOne(_)
DeleteOne(x) ==
    CASE x.t = "obj" ->
            { JObj(Without(x.v, k)) : k \in DOMAIN x.v }
            \cup UNION { { JObj([x.v EXCEPT ![k] = y]) : y \in DeleteOne(x.v[k]) }
                         : k \in DOMAIN x.v }
      [] x.t = "list" ->
            UNION { { JList([x.v EXCEPT ![i] = y]) : y \in DeleteOne(x.v[i]) }
                    : i \in DOMAIN x.v }
      [] OTHER -> {}

\* records whose fields hold values of the wrong type
IllTypedRecords ==
    {JObj([transcript |-> JNull]),
     JObj([Transcript |-> JList(<<JNull>>)]),
     JObj([Transcript |-> JList(<<JObj([LoudnessScores |-> JNull])>>)])}

\* records with a line break inside a string value
NewlineRecords ==
    {JObj([call |-> JObj([call_id |-> JStr("c-7\nc-8"), duration |-> JStr("4:10")])]),
     JObj([Transcript |-> JList(<<
         Turn("AGENT", "One moment.\nThank you.", "NEUTRAL", <<>>, 0)>>)])}

BaseRecords ==
    {AwsRecord(125000, 63000, 59999, <<TurnA, TurnB>>),
     WebsiteRecord(<<TurnA, TurnB>>),
     EmptyDict}
    \cup { BothRecord(tv) : tv \in TranscriptValues }
    \cup { JObj([Transcript |-> tv]) : tv \in TranscriptValues }
    \cup IllTypedRecords
    \cup NewlineRecords

-----------------------------------------------------------------------------
(* State machine: an input record, fields deleted from it, the call *)

NoReturn == [kind |-> "none", text |-> ""]

MainIdle ==
    /\ argv = <<>>
    /\ cwd = ""
    /\ fs = <<>>
    /\ fs_writes = <<>>
    /\ stdout = <<>>
    /\ status = -1
    /\ pc = "idle"

FmtFresh(d) ==
    /\ transcript_data = d
    /\ branch = "none"
    /\ lines = <<>>
    /\ ret = NoReturn
    /\ history = <<>>
    /\ deletes = 0

Init == (\E d \in BaseRecords : FmtFresh(d)) /\ MainIdle

\* the caller hands over the record with one more field missing
DeleteField ==
    /\ history = <<>>
    /\ deletes < MaxDeletes
    /\ \E y \in DeleteOne(transcript_data) : transcript_data' = y
    /\ deletes' = deletes + 1
    /\ UNCHANGED <<branch, lines, ret, history>>
    /\ UNCHANGED mainVars

\* format_transcript(transcript_data), lines 13-125
Invoke ==
    LET r == format_transcript(lines, transcript_data)
        out == [kind |-> IF r.raised THEN "raise" ELSE "str", text |-> r.text]
    IN  /\ branch' = r.branch
        /\ lines' = r.lines
        /\ ret' = out
        /\ UNCHANGED <<transcript_data, deletes>>
        /\ history' = Append(history, [arg |-> transcript_data, out |-> out,
                                       after |-> transcript_data'])

Call ==
    /\ history = <<>>
    /\ Invoke
    /\ UNCHANGED mainVars

Next == DeleteField \/ Call

Spec == Init /\ [][Next]_vars

-----------------------------------------------------------------------------
(* Properties of format_transcript over records with fields deleted *)

Called == ret.kind # "none"
Returned == ret.kind = "str"

HasKey(d, k) == d.t = "obj" /\ k \in DOMAIN d.v

\* d has the key path ks (each level an object)
RECURSIVE HasPath(_, _)
HasPath(d, ks) ==
    ks = <<>> \/ (HasKey(d, Head(ks)) /\ HasPath(d.v[Head(ks)], Tail(ks)))

RECURSIVE At(_, _)
At(d, ks) == IF ks = <<>> THEN d ELSE At(d.v[Head(ks)], Tail(ks))

ListTranscript(d) == HasKey(d, "Transcript") /\ d.v["Transcript"].t = "list"

WebsiteKeys == {"call", "agent", "client", "analysis", "transcript"}

\* C1: a record is handled by the AWS arm if and only if it has a top-level
\* "Transcript" key holding a list; every other record, whatever else it
\* holds, is handled by the Website arm. Exactly one arm runs, and what is
\* printed as the call id comes from that arm's field (JobName for AWS,
\* call.call_id for Website), also when the record carries both.
SchemaDetection ==
    Called =>
        /\ branch \in {"aws", "website"}
        /\ (branch = "aws") <=> ListTranscript(transcript_data)
        /\ Returned /\ ListTranscript(transcript_data) =>
              /\ lines[4] = "Agent: Agent"
              /\ lines[2] = "Call ID: " \o
                    (IF HasKey(transcript_data, "JobName")
                     THEN transcript_data.v["JobName"].v ELSE "N/A")
        /\ Returned /\ ~ListTranscript(transcript_data) =>
              lines[2] = "Call ID: " \o
                    (IF HasPath(transcript_data, <<"call", "call_id">>)
                     THEN At(transcript_data, <<"call", "call_id">>).v ELSE "N/A")

\* a "Transcript" key that holds no list, beside Website keys: the Website arm
SchemaDetectionWitness ==
    /\ Returned
    /\ HasKey(transcript_data, "Transcript")
    /\ transcript_data.v["Transcript"].t \in {"null", "str", "obj"}
    /\ HasPath(transcript_data, <<"call", "call_id">>)
    /\ HasKey(transcript_data, "JobName")
    /\ branch = "website"
    /\ lines[2] = "Call ID: c-7"

\* the duration field of the schema the record is read as
DurationPath(d) ==
    IF ListTranscript(d)
    THEN <<"ConversationCharacteristics", "TotalConversationDurationMillis">>
    ELSE <<"call", "duration">>

\* C2 (as claimed): whenever the duration field is missing, in either schema,
\* the duration line is literally "Duration: N/A".
DurationSentinel ==
    Returned /\ ~HasPath(transcript_data, DurationPath(transcript_data))
        => lines[3] = "Duration: N/A"

NoSchemaMarks(d) ==
    /\ d.t = "obj"
    /\ ~ListTranscript(d)
    /\ DOMAIN d.v \cap WebsiteKeys = {}

SummaryLine(who, sentiment, wpm, talk) ==
    who \o " " \o EmDash \o " sentiment: " \o sentiment
        \o " | talk speed: " \o wpm \o " wpm | total talk time: " \o talk

RECURSIVE SubRecord(_, _)
SubRecord(x, full) ==
    /\ x.t = full.t
    /\ CASE x.t = "obj" ->
               /\ DOMAIN x.v \subseteq DOMAIN full.v
               /\ \A k \in DOMAIN x.v : SubRecord(x.v[k], full.v[k])
         [] x.t = "list" ->
               /\ Len(x.v) = Len(full.v)
               /\ \A i \in DOMAIN x.v : SubRecord(x.v[i], full.v[i])
         [] x.t = "null" -> TRUE
         [] OTHER -> x.v = full.v

WellFormedRecords ==
    {AwsRecord(125000, 63000, 59999, <<TurnA, TurnB>>),
     WebsiteRecord(<<TurnA, TurnB>>)}

FromWellFormed(d) == \E full \in WellFormedRecords : SubRecord(d, full)

\* C8: on a well-formed record of either schema with any of its fields
\* deleted, format_transcript returns a string and does not raise.
TotalOnMissingFields ==
    Called /\ FromWellFormed(transcript_data) => Returned

\* fields gone at three levels: a top-level object, a role entry's parent,
\* and a turn's fields
TotalOnMissingFieldsWitness ==
    /\ Returned
    /\ FromWellFormed(transcript_data)
    /\ deletes >= 3
    /\ ListTranscript(transcript_data)
    /\ ~HasKey(transcript_data, "ConversationCharacteristics")
    /\ ~HasKey(transcript_data.v["Transcript"].v[1], "LoudnessScores")
    /\ ~HasKey(transcript_data.v["Transcript"].v[2], "Content")

-----------------------------------------------------------------------------
(* Well-formed records over ranges of values: milliseconds, loudness samples,
   turn lists *)

MillisValues ==
    { m * 60000 + sec * 1000 + frac :
        m \in (0..MaxMinutes) \cup {10, 61},
        sec \in {0, 5, 9, 10, 59},
        frac \in {0, 1, 999} }

Samples == {JNull, JFloat(400), JFloat(500), JFloat(405), JInt(41)}

ScoreLists == UNION { [1..n -> Samples] : n \in 0..MaxScores }

TurnLists == UNION { [1..n -> {TurnA, TurnB, TurnC}] : n \in 0..MaxTurns }

\* a turn with no LoudnessScores and no BeginOffsetMillis
BareTurn ==
    JObj([ParticipantRole |-> JStr("CUSTOMER"), Content |-> JStr("Yes."),
          Sentiment |-> JStr("NEUTRAL")])

ValueRecords ==
    { AwsRecord(ms, ms, 60000 + ms,
                <<Turn("AGENT", "Hello.", "POSITIVE", <<JFloat(400)>>, ms)>>)
        : ms \in MillisValues }
    \cup { AwsRecord(0, 0, 0,
                     <<Turn("AGENT", "Hello.", "POSITIVE", scores, 3000)>>)
            : scores \in ScoreLists }
    \cup { AwsRecord(125000, 63000, 59999, turns) : turns \in TurnLists }
    \cup { WebsiteRecord(turns) : turns \in TurnLists }
    \cup { WebsiteRecord(<<BareTurn, TurnA>>) }

InitValues == (\E d \in ValueRecords : FmtFresh(d)) /\ MainIdle

SpecValues == InitValues /\ [][Call]_vars

\* the turn list the arm that ran iterates
RawTurns(d) ==
    IF ListTranscript(d) THEN d.v["Transcript"].v
    ELSE IF HasPath(d, <<"transcript", "raw_content">>)
         THEN At(d, <<"transcript", "raw_content">>).v
         ELSE <<>>

\* where the k-th turn's header is in `lines`: after the 13 fixed lines
HeaderAt(k) == lines[11 + 3 * k]

FieldOr(turn, key, default) ==
    IF HasKey(turn, key) THEN turn.v[key] ELSE default

TurnHeader(ts, turn, loudness) ==
    "[" \o ts \o "] " \o FieldOr(turn, "ParticipantRole", JStr("UNKNOWN")).v
        \o " | " \o loudness \o " dB | "
        \o FieldOr(turn, "Sentiment", JStr("UNKNOWN")).v

Tenths(s) == IF s.t = "int" THEN 10 * s.v ELSE s.v

RECURSIVE SumNonNull(_, _)
\* sum of the non-null entries among the first i
SumNonNull(scores, i) ==
    IF i = 0 THEN 0
    ELSE SumNonNull(scores, i - 1)
         + (IF scores[i].t = "null" THEN 0 ELSE Tenths(scores[i]))

Abs(x) == IF x < 0 THEN 0 - x ELSE x

\* C4: in every turn's header the loudness is the mean of the non-null
\* entries of LoudnessScores (nulls in neither sum nor count) rounded to the
\* nearest tenth, and "N/A" when the list is absent, empty or all null, in
\* which case nothing is divided (the call returns).
LoudnessNullFiltering ==
    Called =>
        /\ Returned
        /\ \A k \in DOMAIN RawTurns(transcript_data) :
            LET turn == RawTurns(transcript_data)[k]
                scores == FieldOr(turn, "LoudnessScores", EmptyList).v
                count == Cardinality({i \in DOMAIN scores : scores[i].t # "null"})
                total == SumNonNull(scores, Len(scores))
                ts == PyStr(timestamp(FieldOr(turn, "BeginOffsetMillis", JInt(0))))
            IN  IF count = 0
                THEN HeaderAt(k) = TurnHeader(ts, turn, "N/A")
                ELSE \E r \in {total \div count, total \div count + 1} :
                        /\ 2 * Abs(count * r - total) <= count
                        /\ HeaderAt(k) = TurnHeader(ts, turn, FloatToStr(r))

\* [40.0, null, 50.0] renders 45.0
LoudnessNullFilteringWitness ==
    /\ Returned
    /\ Len(RawTurns(transcript_data)) = 1
    /\ FieldOr(RawTurns(transcript_data)[1], "LoudnessScores", EmptyList)
         = JList(<<JFloat(400), JNull, JFloat(500)>>)
    /\ HeaderAt(1) = "[0:03] AGENT | 45.0 dB | POSITIVE"

\* C5: the header of a turn beginning at b milliseconds (0 when absent)
\* starts "[<m>:<ss>] " with m = b div 60000 without padding and
\* ss = (b mod 60000) div 1000, in 0..59, as exactly two digits.
TimestampFormat ==
    Returned =>
        \A k \in DOMAIN RawTurns(transcript_data) :
            LET b == FieldOr(RawTurns(transcript_data)[k],
                             "BeginOffsetMillis", JInt(0)).v
                m == b \div 60000
                ss == (b % 60000) \div 1000
                prefix == "[" \o NatToStr(m) \o ":" \o Digit(ss \div 10)
                              \o Digit(ss % 10) \o "] "
            IN  /\ ss \in 0..59
                /\ SubSeq(HeaderAt(k), 1, Len(prefix)) = prefix
                /\ m # 0 => SubSeq(HeaderAt(k), 2, 2) # "0"

\* 125000 renders [2:05]
TimestampFormatWitness ==
    /\ Returned
    /\ Len(RawTurns(transcript_data)) = 1
    /\ RawTurns(transcript_data)[1].v["BeginOffsetMillis"] = JInt(125000)
    /\ SubSeq(HeaderAt(1), 1, 7) = "[2:05] "

MinSecsOf(ms) ==
    NatToStr(ms \div 60000) \o " min, " \o NatToStr((ms % 60000) \div 1000)
        \o " secs"

CharPath == <<"ConversationCharacteristics">>
TalkTimePath(role) ==
    CharPath \o <<"TalkTime", "DetailsByParticipant", role, "TotalTimeMillis">>
TalkSpeedPath(role) ==
    CharPath \o <<"TalkSpeed", "DetailsByParticipant", role, "AverageWordsPerMinute">>
SentimentPath(role) == CharPath \o <<"Sentiment", "OverallSentiment", role>>

\* C6: in the AWS arm the duration (seconds first, then minutes and
\* remainder) and each role's talk time (minutes straight from the
\* milliseconds) render as "<m> min, <s> secs" with the same m = ms div 60000
\* and s = (ms mod 60000) div 1000, 0 <= s <= 59, for the same ms.
MillisConversion ==
    ( /\ Returned
      /\ branch = "aws"
      /\ HasPath(transcript_data, CharPath \o <<"TotalConversationDurationMillis">>)
      /\ \A r \in {"AGENT", "CUSTOMER"} :
            /\ HasPath(transcript_data, TalkTimePath(r))
            /\ HasPath(transcript_data, TalkSpeedPath(r))
            /\ HasPath(transcript_data, SentimentPath(r)) )
    =>  LET d == transcript_data
            duration_ms == At(d, CharPath \o <<"TotalConversationDurationMillis">>).v
            Summary(who, role) ==
                SummaryLine(who, PyStr(At(d, SentimentPath(role))),
                            PyStr(At(d, TalkSpeedPath(role))),
                            MinSecsOf(At(d, TalkTimePath(role)).v))
        IN  /\ lines[3] = "Duration: " \o MinSecsOf(duration_ms)
            /\ lines[8] = Summary("Agent ", "AGENT")
            /\ lines[9] = Summary("Client", "CUSTOMER")
            /\ (duration_ms % 60000) \div 1000 \in 0..59

\* 125000 renders "2 min, 5 secs" as the duration and as the agent's talk time
MillisConversionWitness ==
    /\ Returned
    /\ branch = "aws"
    /\ HasPath(transcript_data, TalkTimePath("AGENT"))
    /\ At(transcript_data, TalkTimePath("AGENT")) = JInt(125000)
    /\ lines[3] = "Duration: 2 min, 5 secs"
    /\ lines[8] = "Agent  " \o EmDash
          \o " sentiment: 2.5 | talk speed: 150 wpm | total talk time: 2 min, 5 secs"

IsHeaderLine(l) == Len(l) > 0 /\ SubSeq(l, 1, 1) = "["

\* C7: a turn list of n turns yields exactly n headers; the k-th header and
\* the body after it are those of the k-th input turn; nothing is reordered,
\* dropped, merged or deduplicated.
TurnOrder ==
    Returned =>
        LET turns == RawTurns(transcript_data)
            n == Len(turns)
        IN  /\ Len(lines) = 13 + 3 * n
            /\ Cardinality({i \in 14..Len(lines) : IsHeaderLine(lines[i])}) = n
            /\ \A k \in 1..n :
                  /\ HeaderAt(k) = render_turn(turns[k]).lines[1]
                  /\ lines[12 + 3 * k] = FieldOr(turns[k], "Content", JStr("")).v
                  /\ lines[13 + 3 * k] = ""

\* the same turn twice, then another: three rendered turns in that order
TurnOrderWitness ==
    /\ Returned
    /\ branch = "website"
    /\ RawTurns(transcript_data) = <<TurnB, TurnB, TurnA>>
    /\ Len(lines) = 22
    /\ lines[15] = "My order is late."
    /\ lines[18] = "My order is late."
    /\ lines[21] = "Hello, how can I help?"

-----------------------------------------------------------------------------
(* Repeated invocation in one process: the upload page formats one uploaded
   record after another (streamlit_app.py) *)

RepeatRecords ==
    {AwsRecord(125000, 63000, 59999, <<TurnA, TurnB>>),
     WebsiteRecord(<<TurnA>>),
     EmptyDict,
     JObj([transcript |-> JNull])}

\* streamlit_app.py lines 21-26: another record is uploaded and parsed
Load ==
    /\ \E d \in RepeatRecords : transcript_data' = d
    /\ UNCHANGED <<branch, lines, ret, history, deletes>>
    /\ UNCHANGED mainVars

\* streamlit_app.py line 30: format_transcript(transcript_data), again
CallAgain ==
    /\ Len(history) < MaxCalls
    /\ Invoke
    /\ UNCHANGED mainVars

InitRepeat == (\E d \in RepeatRecords : FmtFresh(d)) /\ MainIdle

NextRepeat == Load \/ CallAgain

SpecRepeat == InitRepeat /\ [][NextRepeat]_vars

\* C9: any two invocations on the same input, whatever was invoked between
\* them, have the same outcome (the same string, byte for byte, or both
\* raise), and no invocation changes the record it was given.
Determinism ==
    /\ \A i, j \in DOMAIN history :
          history[i].arg = history[j].arg => history[i].out = history[j].out
    /\ \A i \in DOMAIN history : history[i].after = history[i].arg

\* the same record formatted first and third, another one in between
DeterminismWitness ==
    /\ Len(history) = 3
    /\ history[1].arg = history[3].arg
    /\ history[2].arg # history[1].arg
    /\ history[1].out.kind = "str"
    /\ history[2].out.kind = "str"
    /\ history[3].out.text = history[1].out.text
    /\ history[2].out.text # history[1].out.text

-----------------------------------------------------------------------------
(* main, lines 128-160: paths, files and the steps of the command *)

RECURSIVE LastIndexOf(_, _, _)
\* str.rfind(ch) among the first i characters, counted from 1; 0 when absent
LastIndexOf(str, ch, i) ==
    IF i = 0 THEN 0
    ELSE IF SubSeq(str, i, i) = ch THEN i
    ELSE LastIndexOf(str, ch, i - 1)

\* Path(p).name: the final component
PathName(p) == SubSeq(p, LastIndexOf(p, "/", Len(p)) + 1, Len(p))

\* Path(p).stem: the final component without its last suffix
PathStem(p) ==
    LET name == PathName(p)
        dot == LastIndexOf(name, ".", Len(name))
    IN  IF 1 < dot /\ dot < Len(name) THEN SubSeq(name, 1, dot - 1) ELSE name

\* Path(p).parent of an absolute path
PathParent(p) == SubSeq(p, 1, LastIndexOf(p, "/", Len(p)) - 1)

\* the file a path names to the operating system: absolute as it is,
\* relative against the current working directory
Resolve(dir, p) == IF SubSeq(p, 1, 1) = "/" THEN p ELSE dir \o "/" \o p

JsonFile(d) == [kind |-> "json", doc |-> d, text |-> ""]
GarbageFile == [kind |-> "garbage", doc |-> JNull, text |-> "{not json"]
Directory == [kind |-> "dir", doc |-> JNull, text |-> ""]
TextFile(t) == [kind |-> "text", doc |-> JNull, text |-> t]

\* what the files on disk parse to; a top-level list is valid JSON too
MainDocs ==
    {AwsRecord(125000, 63000, 59999, <<TurnA, TurnB>>),
     WebsiteRecord(<<TurnA>>),
     EmptyDict,
     JList(<<>>)}

FileSystem(d) ==
    ("/work" :> Directory) @@ ("/work/in" :> Directory)
    @@ ("/data" :> Directory) @@ ("/data/in" :> Directory)
    @@ ("/work/call.json" :> JsonFile(d))
    @@ ("/work/in/call.json" :> JsonFile(d))
    @@ ("/data/in/call.v2.json" :> JsonFile(d))
    @@ ("/work/bad.json" :> GarbageFile)
    @@ ("/data/in/bad.json" :> GarbageFile)
    @@ ("/work/call_formatted.txt" :> TextFile("stale"))

ArgPaths ==
    {"call.json", "in/call.json", "/work/in/call.json", "in/call.v2.json",
     "bad.json", "in/bad.json", "missing.json", "/data/in/none.json", "in"}

WorkingDirs == {"/work", "/data"}

ProgramName == "transcript_formatter.py"

UsageLines ==
    << "Usage: python transcript_formatter.py <path_to_transcript.json>",
       "\nExample: python transcript_formatter.py short_call_transcript.json" >>

\* str(e) of the JSONDecodeError raised on GarbageFile
JsonErrorText ==
    "Expecting property name enclosed in double quotes: line 1 column 2 (char 1)"

RuleWidth == 60

RECURSIVE Repeat(_, _)
\* str * n
Repeat(str, n) == IF n = 0 THEN "" ELSE str \o Repeat(str, n - 1)

InitMain ==
    /\ FmtFresh(JNull)
    /\ argv \in {<<ProgramName>>} \cup { <<ProgramName, p>> : p \in ArgPaths }
    /\ cwd \in WorkingDirs
    /\ fs \in { FileSystem(d) : d \in MainDocs }
    /\ fs_writes = <<>>
    /\ stdout = <<>>
    /\ status = -1
    /\ pc = "start"

\* sys.exit(1) after the prints, or an uncaught exception (nothing on stdout)
Exit(code, printed) ==
    /\ stdout' = stdout \o printed
    /\ status' = code
    /\ pc' = "exited"

\* lines 129-134
CheckArgs ==
    /\ pc = "start"
    /\ IF Len(argv) < 2
       THEN Exit(1, UsageLines)
       ELSE pc' = "exists" /\ UNCHANGED <<stdout, status>>
    /\ UNCHANGED <<argv, cwd, fs, fs_writes>>
    /\ UNCHANGED fmtVars

\* lines 136-138
CheckExists ==
    /\ pc = "exists"
    /\ IF Resolve(cwd, argv[2]) \notin DOMAIN fs
       THEN Exit(1, <<CrossMark \o " Error: File not found: " \o argv[2]>>)
       ELSE pc' = "load" /\ UNCHANGED <<stdout, status>>
    /\ UNCHANGED <<argv, cwd, fs, fs_writes>>
    /\ UNCHANGED fmtVars

\* the except clause reporting the error and carrying on with an empty record
LoadJson_carry_on ==
    /\ pc = "load"
    /\ LET file == fs[Resolve(cwd, argv[2])]
       IN  CASE file.kind = "json" ->
                    /\ transcript_data' = file.doc
                    /\ pc' = "format"
                    /\ UNCHANGED <<stdout, status>>
             [] file.kind \in {"garbage", "text"} ->
                    /\ stdout' = stdout \o <<CrossMark \o " Error: Invalid JSON file: "
                                                  \o JsonErrorText>>
                    /\ transcript_data' = EmptyDict
                    /\ pc' = "format"
                    /\ UNCHANGED status
             [] file.kind = "dir" ->
                    /\ Exit(1, <<>>)
                    /\ UNCHANGED transcript_data
    /\ UNCHANGED <<argv, cwd, fs, fs_writes>>
    /\ UNCHANGED <<branch, lines, ret, history, deletes>>

\* lines 140-145: open and json.load; JSONDecodeError is caught, the
\* IsADirectoryError of open() on a directory is not
LoadJson ==
    /\ pc = "load"
    /\ LET file == fs[Resolve(cwd, argv[2])]
       IN  CASE file.kind = "json" ->
                    /\ transcript_data' = file.doc
                    /\ pc' = "format"
                    /\ UNCHANGED <<stdout, status>>
             [] file.kind \in {"garbage", "text"} ->
                    /\ Exit(1, <<CrossMark \o " Error: Invalid JSON file: "
                                     \o JsonErrorText>>)
                    /\ UNCHANGED transcript_data
             [] file.kind = "dir" ->
                    /\ Exit(1, <<>>)
                    /\ UNCHANGED transcript_data
    /\ UNCHANGED <<argv, cwd, fs, fs_writes>>
    /\ UNCHANGED <<branch, lines, ret, history, deletes>>

\* line 147: formatted = format_transcript(transcript_data); an exception
\* it raises is not caught
Format ==
    /\ pc = "format"
    /\ Invoke
    /\ IF ret'.kind = "raise"
       THEN Exit(1, <<>>)
       ELSE pc' = "write" /\ UNCHANGED <<stdout, status>>
    /\ UNCHANGED <<argv, cwd, fs, fs_writes>>

\* line 150
output_path == PathStem(argv[2]) \o "_formatted.txt"

\* lines 150-152: open(output_path, "w") and write
WriteOutput ==
    /\ pc = "write"
    /\ LET target == Resolve(cwd, output_path)
       IN  /\ fs' = [q \in DOMAIN fs \cup {target} |->
                        IF q = target THEN TextFile(ret.text) ELSE fs[q]]
           /\ fs_writes' = Append(fs_writes, target)
    /\ pc' = "print"
    /\ UNCHANGED <<argv, cwd, stdout, status>>
    /\ UNCHANGED fmtVars

\* lines 154-160
PrintResult ==
    /\ pc = "print"
    /\ stdout' = stdout \o
          << CheckMark \o " Transcript formatted successfully!",
             CheckMark \o " Output saved to: " \o output_path,
             "\nFormatted transcript (" \o IntToStr(Len(ret.text)) \o " characters):",
             Repeat("=", RuleWidth),
             ret.text,
             Repeat("=", RuleWidth),
             "\nCopy the formatted transcript above and paste it into Claude Console." >>
    /\ status' = 0
    /\ pc' = "exited"
    /\ UNCHANGED <<argv, cwd, fs, fs_writes>>
    /\ UNCHANGED fmtVars

NextMain ==
    CheckArgs \/ CheckExists \/ LoadJson \/ Format \/ WriteOutput \/ PrintResult

SpecMain == InitMain /\ [][NextMain]_vars

-----------------------------------------------------------------------------
(* Properties of main *)

NoArgument == Len(argv) < 2
InputPath == Resolve(cwd, argv[2])
MissingFile == ~NoArgument /\ InputPath \notin DOMAIN fs
InvalidJson ==
    /\ ~NoArgument
    /\ InputPath \in DOMAIN fs
    /\ fs[InputPath].kind \in {"garbage", "text"}

StartsWith(str, prefix) ==
    Len(str) >= Len(prefix) /\ SubSeq(str, 1, Len(prefix)) = prefix

\* C10: run with no argument, main prints the usage and exits non-zero; run
\* on a path that does not exist or on a file that is not valid JSON, it
\* prints a diagnostic and exits non-zero. On each of these paths
\* format_transcript is never called and no file is opened for writing; a
\* file is written only after the input was parsed and format_transcript
\* returned.
CliFailurePaths ==
    /\ pc = "exited" /\ (NoArgument \/ MissingFile \/ InvalidJson) =>
          /\ status # 0
          /\ history = <<>>
          /\ fs_writes = <<>>
          /\ NoArgument => stdout = UsageLines
          /\ MissingFile =>
                stdout = <<CrossMark \o " Error: File not found: " \o argv[2]>>
          /\ InvalidJson =>
                /\ Len(stdout) = 1
                /\ StartsWith(stdout[1], CrossMark \o " Error: Invalid JSON file: ")
    /\ (NoArgument \/ MissingFile \/ InvalidJson) => history = <<>> /\ fs_writes = <<>>
    /\ fs_writes # <<>> =>
          /\ Len(history) = 1
          /\ ret.kind = "str"
          /\ pc \in {"print", "exited"}
          /\ fs[InputPath].kind = "json"
          /\ transcript_data = fs[InputPath].doc

\* an existing file that is not JSON, named relative to the working
\* directory: the diagnostic, exit status 1, nothing formatted or written
CliFailurePathsWitness ==
    /\ pc = "exited"
    /\ InvalidJson
    /\ argv[2] = "in/bad.json"
    /\ status = 1
    /\ Len(stdout) = 1
    /\ history = <<>>
    /\ fs_writes = <<>>

\* the file beside the input: same directory, <stem>_formatted.txt
SiblingPath == PathParent(InputPath) \o "/" \o PathStem(argv[2]) \o "_formatted.txt"

\* C11 (as claimed): when main succeeds on <dir>/<stem>.<ext>, the formatted
\* text is in <dir>/<stem>_formatted.txt, whatever the working directory,
\* that is the one file written, and the same text is echoed on stdout.
SiblingOutput ==
    pc = "exited" /\ status = 0 =>
        /\ fs_writes = <<SiblingPath>>
        /\ SiblingPath \in DOMAIN fs
        /\ fs[SiblingPath] = TextFile(ret.text)
        /\ \E i \in DOMAIN stdout : stdout[i] = ret.text

-----------------------------------------------------------------------------
(* The layout of the returned text *)

RECURSIVE Pieces(_, _, _)
\* the pieces of text from position start on, cut at the positions in breaks
Pieces(text, start, breaks) ==
    IF breaks = {} THEN << SubSeq(text, start, Len(text)) >>
    ELSE LET b == CHOOSE i \in breaks : \A j \in breaks : i <= j
         IN  << SubSeq(text, start, b - 1) >> \o Pieces(text, b + 1, breaks \ {b})

\* formatted_text.split('\n')
Split(text) ==
    Pieces(text, 1, {i \in 1..Len(text) : SubSeq(text, i, i) = "\n"})

HasNewline(str) == LastIndexOf(str, "\n", Len(str)) > 0

RECURSIVE NewlineFree(_)
\* no str anywhere in x holds a line break
NewlineFree(x) ==
    CASE x.t = "str" -> ~HasNewline(x.v)
      [] x.t = "obj" -> \A k \in DOMAIN x.v : NewlineFree(x.v[k])
      [] x.t = "list" -> \A i \in DOMAIN x.v : NewlineFree(x.v[i])
      [] OTHER -> TRUE

\* the Content of every turn is free of line breaks
ContentNewlineFree(d) ==
    \A k \in DOMAIN RawTurns(d) :
        ~HasNewline(FieldOr(RawTurns(d)[k], "Content", JStr("")).v)

\* the sections in order: four labelled metadata lines, two summary lines,
\* the section header, then header, body and blank line for each of n turns
FixedLayout(out, n) ==
    /\ Len(out) = 13 + 3 * n
    /\ out[1] = "=== CALL METADATA ==="
    /\ StartsWith(out[2], "Call ID: ")
    /\ StartsWith(out[3], "Duration: ")
    /\ StartsWith(out[4], "Agent: ")
    /\ StartsWith(out[5], "Client: ")
    /\ out[6] = ""
    /\ out[7] = "=== CALL ANALYSIS SUMMARY ==="
    /\ StartsWith(out[8], "Agent  " \o EmDash \o " sentiment: ")
    /\ StartsWith(out[9], "Client " \o EmDash \o " sentiment: ")
    /\ out[10] = ""
    /\ out[11] = "=== TRANSCRIPT ==="
    /\ out[12] = "(Format: [timestamp] ROLE | avg_loudness dB | SENTIMENT)"
    /\ out[13] = ""
    /\ \A k \in 1..n :
          /\ StartsWith(out[11 + 3 * k], "[")
          /\ out[13 + 3 * k] = ""

\* C12 (amended): whenever format_transcript returns on a record none of
\* whose string values holds a line break, the returned text split on "\n"
\* has the fixed layout whatever fields are missing, so its number of lines,
\* 13 + 3n, depends only on the number n of turns.
LineStructure ==
    Returned /\ NewlineFree(transcript_data) =>
        FixedLayout(Split(ret.text), Len(RawTurns(transcript_data)))

\* C12 (as claimed): ... on every record with newline-free turn content.
LineStructureContentOnly ==
    Returned /\ ContentNewlineFree(transcript_data) =>
        FixedLayout(Split(ret.text), Len(RawTurns(transcript_data)))

\* a Website record that lost its call object, its analysis and a turn's
\* Sentiment: still 13 + 3 * 2 lines, the labelled lines showing defaults
LineStructureWitness ==
    /\ Returned
    /\ branch = "website"
    /\ deletes >= 3
    /\ Len(RawTurns(transcript_data)) = 2
    /\ ~HasKey(transcript_data, "call")
    /\ ~HasKey(transcript_data, "analysis")
    /\ ~HasKey(RawTurns(transcript_data)[2], "Sentiment")
    /\ Len(Split(ret.text)) = 19
    /\ Split(ret.text)[3] = "Duration: N/A"
    /\ Split(ret.text)[17] = "[2:05] CUSTOMER | N/A dB | UNKNOWN"

====
